---- MODULE Spec2Model ----
(***************************************************************************)
(* State-machine model of two command-line tools of the DENSS package:     *)
(*   bin/denss/rho2dat.py  (density map -> scattering profile)             *)
(*   bin/denss/regrid.py   (profile resampler)                             *)
(*                                                                         *)
(* Numbers.  Reciprocal-space quantities (q, dq, qstep, bin centres) are   *)
(* measured in units of the epsilon of rho2dat.py line 96 (1e-8), so       *)
(* Eps == 1.  Lengths are measured in the unit in which 2*pi equals TwoPi  *)
(* of these q-units.  Real numbers that the program holds as floats are    *)
(* exact rationals [num, den] here; square roots are never taken of a      *)
(* rational: qr holds the SQUARED index norm of a cell (|q|^2 / dq^2) and  *)
(* bin labels are decided on squares, so they are exact.  Only the bin     *)
(* centres (means of magnitudes) are fixed-point numbers.                  *)
(***************************************************************************)
EXTENDS Integers, Sequences, FiniteSets, TLC

(* ------------------------------ bounds --------------------------------- *)
\* largest grid size (samples per axis) stored in an input map
MaxNFile == 6
\* largest padded grid size the inputs may ask for
MaxN == 6
\* fixed-point digits of a bin centre: centres are held in units of Eps/FixPt
FixPt == 10
\* fixed-point scale of a square root
SqrtScale == 100

(* ------------------------- program constants --------------------------- *)
Eps == 1
TwoPi == 600
\* result of 0/0 in numpy (RuntimeWarning, value nan); every comparison is false
NaN == -1

(* --------------------------- float arithmetic --------------------------- *)
Abs(x) == IF x < 0 THEN -x ELSE x

RECURSIVE Gcd(_, _)
Gcd(a, b) == IF b = 0 THEN a ELSE Gcd(b, a % b)

\* the rational a/b in lowest terms with a positive denominator (b # 0)
R(a, b) ==
    LET g == Gcd(Abs(a), Abs(b))
        sg == IF b < 0 THEN -1 ELSE 1
    IN  [num |-> sg * (a \div g), den |-> sg * (b \div g)]

RLess(x, y) == x.num * y.den < y.num * x.den

REq(x, y) == x.num * y.den = y.num * x.den

RMul(x, y) == R(x.num * y.num, x.den * y.den)

RDiv(x, y) == R(x.num * y.den, x.den * y.num)

RAbs(x) == R(Abs(x.num), x.den)

\* Python int(): truncation toward zero
PyInt(x) == IF x.num >= 0 THEN x.num \div x.den ELSE -((-x.num) \div x.den)

\* nearest integer (ties upward), for non-negative x
Nearest(x) == (2 * x.num + x.den) \div (2 * x.den)

RECURSIVE IsqrtBS(_, _, _)
IsqrtBS(x, lo, hi) ==
    IF lo >= hi THEN lo
    ELSE LET mid == (lo + hi + 1) \div 2
         IN  IF mid * mid <= x THEN IsqrtBS(x, mid, hi) ELSE IsqrtBS(x, lo, mid - 1)

\* floor of the square root
Isqrt(x) == IsqrtBS(x, 0, IF x < 46340 THEN x ELSE 46340)

(* ------------------------------ arrays ---------------------------------- *)
\* index set of an n x n x n array
Cells(k) == (0 .. k - 1) \X (0 .. k - 1) \X (0 .. k - 1)

\* a cubic numpy array: shape[0] and the data
Arr(k, f) == [shape |-> k, data |-> f]

NoArr == Arr(0, << >>)

\* C-order ravel index -> cell
Unravel(i, k) == << i \div (k * k), (i \div k) % k, i % k >>

RECURSIVE SumOf(_, _, _)
\* x[lo] + ... + x[hi] for a 1-D array x
SumOf(x, lo, hi) ==
    IF lo > hi THEN 0
    ELSE IF lo = hi THEN x[lo]
    ELSE SumOf(x, lo, (lo + hi) \div 2) + SumOf(x, (lo + hi) \div 2 + 1, hi)

RECURSIVE MaskedSumRange(_, _, _, _, _, _)
\* the sum of x over the cells of ravel index lo..hi whose label is s
MaskedSumRange(x, labels, s, k, lo, hi) ==
    IF lo > hi THEN 0
    ELSE IF lo = hi
         THEN (IF labels[Unravel(lo, k)] = s THEN x[Unravel(lo, k)] ELSE 0)
    ELSE MaskedSumRange(x, labels, s, k, lo, (lo + hi) \div 2)
         + MaskedSumRange(x, labels, s, k, (lo + hi) \div 2 + 1, hi)

\* sum of x over the cells whose label is s: np.bincount(labels, weights=x)[s]
MaskedSum(x, labels, s, k) == MaskedSumRange(x, labels, s, k, 0, k * k * k - 1)

SetMax(S) == CHOOSE x \in S : \A y \in S : y <= x

SetMin(S) == CHOOSE x \in S : \A y \in S : x <= y

(* --------------------------- rho2dat.py --------------------------------- *)
\* the map stored in the file: distinct positive samples, or all zero
FileRho(N, kind) ==
    Arr(N, [c \in Cells(N) |->
              IF kind = "zero" THEN 0 ELSE 1 + c[1] + N * c[2] + N * N * c[3]])

\* rho[:-1,:-1,:-1] when the size is odd
Trim(r) ==
    IF r.shape % 2 = 1
    THEN Arr(r.shape - 1, [c \in Cells(r.shape - 1) |-> r.data[c]])
    ELSE r

\* rho[::ns, ::ns, ::ns]
Stride(r, ns) ==
    LET k == (r.shape + ns - 1) \div ns
    IN  Arr(k, [c \in Cells(k) |-> r.data[<< c[1] * ns, c[2] * ns, c[3] * ns >>]])

\* rho[np.abs(rho)<=threshold] = 0
Threshold(r, t) ==
    IF t = << >> THEN r
    ELSE Arr(r.shape, [c \in Cells(r.shape) |-> IF Abs(r.data[c]) <= t[1] THEN 0 ELSE r.data[c]])

\* np.fft.fftfreq(k)*k : the integer frequency index of position i
FftIdx(i, k) == IF i <= (k - 1) \div 2 THEN i ELSE i - k

\* qx_ as multiples of 2*pi/side
FreqAxis(k) == [i \in 0 .. k - 1 |-> FftIdx(i, k)]

\* qr as squared multiples of 2*pi/side
FreqNorm2(k) ==
    Arr(k, [c \in Cells(k) |->
              FftIdx(c[1], k) * FftIdx(c[1], k) + FftIdx(c[2], k) * FftIdx(c[2], k)
              + FftIdx(c[3], k) * FftIdx(c[3], k)])

\* 2*np.pi/side
Dq(s) == RDiv(R(TwoPi, 1), s)

\* magnitude |dq|*sqrt(m) of a cell, fixed point in units of Eps/FixPt
Mag(m, s) ==
    LET d == RAbs(Dq(s))
    IN  (d.num * FixPt * Isqrt(m * SqrtScale * SqrtScale)) \div (d.den * SqrtScale)

\* qstep = np.min(qr[qr>0]) - 1e-8 ; the smallest positive squared norm is 1
QStep(qrA, s) ==
    LET d == RAbs(Dq(s))
        m == SetMin({qrA.data[c] : c \in {x \in Cells(qrA.shape) : qrA.data[x] > 0}})
    IN  R(d.num * Isqrt(m) - Eps * d.den, d.den)

\* floor(|dq|*sqrt(m) / |qstep|), decided on squares
FloorRatio(m, s, qs) ==
    LET d == RAbs(Dq(s))
        a == d.num * qs.den
        b == d.den * Abs(qs.num)
    IN  Isqrt((a * a * m) \div (b * b))

\* nbins = int(qmax/qstep)
NBins(qrA, s, qs) ==
    LET mmax == SetMax({qrA.data[c] : c \in Cells(qrA.shape)})
    IN  IF qs.num > 0 THEN FloorRatio(mmax, s, qs) ELSE -FloorRatio(mmax, s, qs)

\* the labelling without the shift of lines 101 and 164 (qbin_labels -= 1)
BinLabelUnshifted(m, s, qs, nb) ==
    IF nb = 0 THEN 1
    ELSE LET f == FloorRatio(m, s, qs) IN (IF f < nb THEN f ELSE nb) + 1

\* the labelling with np.searchsorted(qbins, v, "left"): edges strictly below v
BinLabelLeft(m, s, qs, nb) ==
    IF m = 0 THEN -1
    ELSE IF nb = 0 THEN 0
    ELSE LET d == RAbs(Dq(s))
             a == d.num * qs.den
             b == d.den * Abs(qs.num)
             f == Isqrt((a * a * m) \div (b * b))
             g == IF f * f * b * b = a * a * m THEN f - 1 ELSE f
         IN  IF g < nb THEN g ELSE nb

\* np.searchsorted(qbins, v, "right") - 1 with qbins = linspace(0, nbins*qstep, nbins+1):
\* the number of edges i*qstep (i = 0..nbins) that are <= v, minus one
BinLabel(m, s, qs, nb) ==
    IF nb = 0 THEN 0
    ELSE LET f == FloorRatio(m, s, qs) IN IF f < nb THEN f ELSE nb

BinLabels(qrA, s, qs, nb) ==
    Arr(qrA.shape, [c \in Cells(qrA.shape) |-> BinLabel(qrA.data[c], s, qs, nb)])

\* np.bincount(labels)
BinCount(lab) ==
    LET top == SetMax({lab.data[c] : c \in Cells(lab.shape)})
    IN  [b \in 0 .. top |-> Cardinality({c \in Cells(lab.shape) : lab.data[c] = b})]

\* saxs.mybinmean(x, labels, xcount): per-label sum of x divided by the count
mybinmean(x, lab, xc) ==
    [b \in DOMAIN xc |->
        IF xc[b] = 0 THEN NaN
        ELSE MaskedSum(x, lab.data, b, lab.shape) \div xc[b]]

\* saxs.myfftn(rho): the 3-D discrete Fourier transform, amplitudes in units of
\* 1e-16.  The transform of an all-zero map is exactly zero in every cell; the
\* transform of any other map is held as one generic non-zero amplitude.
myfftn(r) ==
    LET zero == \A c \in Cells(r.shape) : r.data[c] = 0
    IN  Arr(r.shape, [c \in Cells(r.shape) |->
                        IF zero THEN [re |-> 0, im |-> 0] ELSE [re |-> 1000, im |-> 0]])

\* the floor value 1e-16 of line 109, in amplitude units
FloorVal == 1

\* F[F.real==0] = 1e-16
FloorZeroReal(Fa) ==
    Arr(Fa.shape, [c \in Cells(Fa.shape) |->
                     IF Fa.data[c].re = 0 THEN [re |-> FloorVal, im |-> 0] ELSE Fa.data[c]])

\* saxs.abs2(F)
abs2(Fa) ==
    Arr(Fa.shape, [c \in Cells(Fa.shape) |->
                     Fa.data[c].re * Fa.data[c].re + Fa.data[c].im * Fa.data[c].im])

\* np.max(np.abs(qx_)) in place of np.max(qx_)
QmaxAbs(ax, s) ==
    LET d == Dq(s)
    IN  (Abs(d.num) * FixPt * SetMax({Abs(ax[i]) : i \in DOMAIN ax})) \div d.den

\* np.max(qx_), fixed point in units of Eps/FixPt
QmaxToUse(ax, s) ==
    LET d == Dq(s)
        top == IF d.num >= 0 THEN SetMax({ax[i] : i \in DOMAIN ax})
               ELSE -SetMin({ax[i] : i \in DOMAIN ax})
    IN  (Abs(d.num) * FixPt * top) \div d.den

RECURSIVE MaskSelect(_, _, _, _)
\* x[centres < limit] for 1-D arrays indexed from 0: the kept entries, in order
MaskSelect(x, centres, limit, i) ==
    IF i \notin DOMAIN centres THEN << >>
    ELSE (IF centres[i] # NaN /\ centres[i] < limit THEN << x[i] >> ELSE << >>)
         \o MaskSelect(x, centres, limit, i + 1)

\* lines 123-141 with round() in place of int() at line 140
FinalNRounded(a, k, s, vox) ==
    IF a.n # << >>
    THEN IF a.n[1] < k THEN k ELSE a.n[1]
    ELSE LET current_dq == Dq(s)
             requested == R(a.dq[1], 1)
             desired_dq == IF RLess(current_dq, requested) THEN current_dq ELSE requested
             desired_side == RDiv(R(TwoPi, 1), desired_dq)
             desired_n == RDiv(desired_side, vox)
             k1 == Nearest(desired_n)
         IN  IF k1 % 2 = 1 THEN k1 + 1 ELSE k1

\* lines 123-141 with the two branches tested in the other order (--dq first)
FinalNDqFirst(a, k, s, vox) ==
    IF a.dq = << >>
    THEN IF a.n[1] < k THEN k ELSE a.n[1]
    ELSE LET current_dq == Dq(s)
             requested == R(a.dq[1], 1)
             desired_dq == IF RLess(current_dq, requested) THEN current_dq ELSE requested
             desired_side == RDiv(R(TwoPi, 1), desired_dq)
             desired_n == RDiv(desired_side, vox)
             k1 == PyInt(desired_n)
         IN  IF k1 % 2 = 1 THEN k1 + 1 ELSE k1

\* lines 123-141: the sample count chosen by the resolution control
FinalN(a, k, s, vox) ==
    IF a.n # << >>
    THEN IF a.n[1] < k THEN k ELSE a.n[1]
    ELSE LET current_dq == Dq(s)
             requested == R(a.dq[1], 1)
             desired_dq == IF RLess(current_dq, requested) THEN current_dq ELSE requested
             desired_side == RDiv(R(TwoPi, 1), desired_dq)
             desired_n == RDiv(desired_side, vox)
             k1 == PyInt(desired_n)
         IN  IF k1 % 2 = 1 THEN k1 + 1 ELSE k1

\* the density left at its original size: no zero padding
PadIntoUnpadded(r, k, a, b) == r

\* rho_pad = np.zeros((n,n,n)); rho_pad[a:b,a:b,a:b] = rho
PadInto(r, k, a, b) ==
    Arr(k, [c \in Cells(k) |->
              IF \A x \in 1 .. 3 : a <= c[x] /\ c[x] < b
              THEN (IF r.shape = 1 THEN r.data[<< 0, 0, 0 >>]
                    ELSE r.data[<< c[1] - a, c[2] - a, c[3] - a >>])
              ELSE 0])

\* rows of np.vstack((qbinsc, Imean, Imean*0+Imean[0]*.03)).T ; the third
\* column is 3 percent of the first intensity, held as that intensity
ProfileRows(qs, Is) ==
    [i \in 1 .. Len(qs) |-> [q |-> qs[i], I |-> Is[i], err |-> Is[1]]]

(* ------------------------------- state ---------------------------------- *)
VARIABLES
    pc,        \* position of rho2dat's main()
    crash,     \* source line of the uncaught exception that ended main(), 0 if none
    args,      \* the parsed command line of rho2dat
    file,      \* the MRC file: its grid size, box side and contents
    rho, side, n, n_orig, voxel,
    qx_, qr, qstep, nbins, qbin_labels, xcount, qbinsc,
    F, I3D, Imean,
    qbinsc_to_use_pre, Imean_to_use_pre,
    Iq,        \* the rows handed to np.savetxt
    written,   \* TRUE once <output>.dat has been written
    rpc,       \* position of regrid's main()
    rcrash,    \* source line of the uncaught exception that ended regrid, 0 if none
    rargs,     \* the parsed command line of regrid
    rprofile,  \* what saxs.loadProfile returned: rows (q, I, sigq)
    rIq,       \* Iq of regrid.py
    rqc,       \* the target grid qc = np.linspace(0, qmax, nq), held as (qmax, nq)
    rfit,      \* the rows (q, I, err) the two interpolators were built on
    rwritten   \* TRUE once <basename>.regrid.dat has been written

rho2datVars == << pc, crash, args, file, rho, side, n, n_orig, voxel, qx_, qr, qstep,
                  nbins, qbin_labels, xcount, qbinsc, F, I3D, Imean,
                  qbinsc_to_use_pre, Imean_to_use_pre, Iq, written >>

regridVars == << rpc, rcrash, rargs, rprofile, rIq, rqc, rfit, rwritten >>

vars == << rho2datVars, regridVars >>

(* ------------------------------ inputs ---------------------------------- *)
\* box sides found in map files (length units): dq = TwoPi/side
SideSet == { -4, 0, 4, 200 }

\* --ns
NsSet == { 1, 2 }

\* -n : << >> is None
ArgNSet == { << >>, << 2 >>, << 5 >>, << 6 >> }

\* -dq, in q-units : << >> is None
ArgDqSet == { << >>, << 200 >>, << 150 >>, << 110 >> }

\* -t : << >> is None
ThresholdSet == { << >>, << 1 >> }

\* the size of rho after lines 72-75
SizeAfterRead(N, ns) == ((N - (N % 2)) + ns - 1) \div ns

\* inputs whose padded grid stays within MaxN
Feasible(f, a) ==
    LET k == SizeAfterRead(f.N, a.ns)
    IN  IF k = 0 \/ f.side = 0 \/ (a.n = << >> /\ a.dq = << >>)
        THEN TRUE
        ELSE FinalN(a, k, R(f.side, 1), R(f.side, k)) <= MaxN

Files == [N : 1 .. MaxNFile, side : SideSet, kind : {"samples", "zero"}]

Args ==
    [n : ArgNSet, dq : ArgDqSet, ns : NsSet, threshold : ThresholdSet, plot : BOOLEAN]

\* the runs explored: every combination of map size, --ns, -n and -dq on a
\* plotted, unthresholded map of distinct samples in a box of side 4, and each
\* single departure from that (another side, an all-zero map, a threshold,
\* plotting off) with every map size, --ns and -n
Departures(f, a) ==
    (IF f.side # 4 THEN 1 ELSE 0) + (IF f.kind = "zero" THEN 1 ELSE 0)
    + (IF a.threshold # << >> THEN 1 ELSE 0) + (IF a.plot THEN 0 ELSE 1)

Explored(f, a) ==
    /\ Feasible(f, a)
    /\ Departures(f, a) <= 1
    /\ Departures(f, a) = 1 => a.dq = << >>

Rho2datUnset ==
    /\ rho = NoArr /\ side = R(0, 1) /\ n = 0 /\ n_orig = 0 /\ voxel = R(0, 1)
    /\ qx_ = << >> /\ qr = NoArr /\ qstep = R(0, 1) /\ nbins = 0
    /\ qbin_labels = NoArr /\ xcount = << >> /\ qbinsc = << >>
    /\ F = NoArr /\ I3D = NoArr /\ Imean = << >>
    /\ qbinsc_to_use_pre = << >> /\ Imean_to_use_pre = << >>
    /\ Iq = << >> /\ written = FALSE /\ crash = 0

InitRho2dat ==
    /\ pc = "read"
    /\ file \in Files
    /\ args \in Args
    /\ Explored(file, args)
    /\ Rho2datUnset

Fail(line) ==
    /\ pc' = "crashed"
    /\ crash' = line

(* lines 71-77: read the map, trim an odd size, stride, threshold *)
ReadMap ==
    /\ pc = "read"
    /\ rho' = Threshold(Stride(Trim(FileRho(file.N, file.kind)), args.ns), args.threshold)
    /\ side' = R(file.side, 1)
    /\ pc' = "geometry"
    /\ UNCHANGED << crash, args, file, n, n_orig, voxel, qx_, qr, qstep, nbins,
                    qbin_labels, xcount, qbinsc, F, I3D, Imean, qbinsc_to_use_pre,
                    Imean_to_use_pre, Iq, written >>
    /\ UNCHANGED regridVars

(* lines 78-95: grid geometry.  side/n with n = 0 raises ZeroDivisionError at
   line 81 when side is a Python float; with a numpy float it is fftfreq(0)
   at line 91 that raises.  1/side with side = 0 raises at line 90 for a
   Python float; with a numpy float the nan it produces ends the run at
   int(nan), line 97. *)
Geometry ==
    /\ pc = "geometry"
    /\ n' = rho.shape
    /\ IF rho.shape = 0
       THEN /\ \E line \in {81, 91} : Fail(line)
            /\ UNCHANGED << voxel, n_orig, qx_, qr >>
       ELSE /\ voxel' = RDiv(side, R(rho.shape, 1))
            /\ n_orig' = rho.shape
            /\ IF side.num = 0
               THEN /\ \E line \in {90, 97} : Fail(line)
                    /\ UNCHANGED << qx_, qr >>
               ELSE /\ qx_' = FreqAxis(rho.shape)
                    /\ qr' = FreqNorm2(rho.shape)
                    /\ pc' = "bins"
                    /\ UNCHANGED crash
    /\ UNCHANGED << args, file, rho, side, qstep, nbins, qbin_labels, xcount, qbinsc,
                    F, I3D, Imean, qbinsc_to_use_pre, Imean_to_use_pre, Iq, written >>
    /\ UNCHANGED regridVars

\* lines 96-105 and 155-167: the bin scheme of the current qr and side.
\* np.min of an empty selection raises (line 96); qstep = 0 makes int(inf)
\* raise (line 97); a negative sample count makes linspace raise (line 98); an
\* empty qbins labels every cell -1 and bincount raises (line 103).
BinSchemeFails(qrA, s) ==
    \/ \A c \in Cells(qrA.shape) : qrA.data[c] = 0
    \/ QStep(qrA, s).num = 0
    \/ NBins(qrA, s, QStep(qrA, s)) < 0

BinSchemeFailLine(qrA, s, first, countLine) ==
    IF \A c \in Cells(qrA.shape) : qrA.data[c] = 0 THEN first
    ELSE IF QStep(qrA, s).num = 0 THEN first + 1
    ELSE IF NBins(qrA, s, QStep(qrA, s)) < -1 THEN first + 2
    ELSE countLine

BuildBins(qrA, s) ==
    /\ qstep' = QStep(qrA, s)
    /\ nbins' = NBins(qrA, s, qstep')
    /\ qbin_labels' = BinLabels(qrA, s, qstep', nbins')
    /\ xcount' = BinCount(qbin_labels')
    /\ qbinsc' = mybinmean([c \in Cells(qrA.shape) |-> Mag(qrA.data[c], s)],
                           qbin_labels', xcount')

(* lines 96-105 *)
BinScheme ==
    /\ pc = "bins"
    /\ IF BinSchemeFails(qr, side)
       THEN /\ Fail(BinSchemeFailLine(qr, side, 96, 103))
            /\ UNCHANGED << qstep, nbins, qbin_labels, xcount, qbinsc >>
       ELSE /\ BuildBins(qr, side)
            /\ pc' = "transform"
            /\ UNCHANGED crash
    /\ UNCHANGED << args, file, rho, side, n, n_orig, voxel, qx_, qr, F, I3D, Imean,
                    qbinsc_to_use_pre, Imean_to_use_pre, Iq, written >>
    /\ UNCHANGED regridVars

(* lines 108-111: the first transform, floored, and its shell means *)
Transform ==
    /\ pc = "transform"
    /\ F' = FloorZeroReal(myfftn(rho))
    /\ I3D' = abs2(F')
    /\ Imean' = mybinmean(I3D'.data, qbin_labels, xcount)
    /\ pc' = "plot"
    /\ UNCHANGED << crash, args, file, rho, side, n, n_orig, voxel, qx_, qr, qstep, nbins,
                    qbin_labels, xcount, qbinsc, qbinsc_to_use_pre, Imean_to_use_pre,
                    Iq, written >>
    /\ UNCHANGED regridVars

(* lines 113-118: the truncated default profile, kept for the plot *)
PlotDefault ==
    /\ pc = "plot"
    /\ IF args.plot
       THEN /\ qbinsc_to_use_pre' = MaskSelect(qbinsc, qbinsc, QmaxToUse(qx_, side), 0)
            /\ Imean_to_use_pre' = MaskSelect(Imean, qbinsc, QmaxToUse(qx_, side), 0)
       ELSE UNCHANGED << qbinsc_to_use_pre, Imean_to_use_pre >>
    /\ pc' = IF args.dq # << >> \/ args.n # << >> THEN "resolution" ELSE "final_transform"
    /\ UNCHANGED << crash, args, file, rho, side, n, n_orig, voxel, qx_, qr, qstep, nbins,
                    qbin_labels, xcount, qbinsc, F, I3D, Imean, Iq, written >>
    /\ UNCHANGED regridVars

(* lines 120-142: finalize n, then side = voxel*n *)
ResolutionControl ==
    /\ pc = "resolution"
    /\ n' = FinalN(args, n, side, voxel)
    /\ side' = RMul(voxel, R(n', 1))
    /\ pc' = "rebuild"
    /\ UNCHANGED << crash, args, file, rho, n_orig, voxel, qx_, qr, qstep, nbins,
                    qbin_labels, xcount, qbinsc, F, I3D, Imean, qbinsc_to_use_pre,
                    Imean_to_use_pre, Iq, written >>
    /\ UNCHANGED regridVars

(* lines 143-167: geometry and bin scheme of the new n and side *)
Rebuild ==
    /\ pc = "rebuild"
    /\ qx_' = FreqAxis(n)
    /\ qr' = FreqNorm2(n)
    /\ IF BinSchemeFails(qr', side)
       THEN /\ Fail(BinSchemeFailLine(qr', side, 155, 166))
            /\ UNCHANGED << qstep, nbins, qbin_labels, xcount, qbinsc >>
       ELSE /\ BuildBins(qr', side)
            /\ pc' = "pad"
            /\ UNCHANGED crash
    /\ UNCHANGED << args, file, rho, side, n, n_orig, voxel, F, I3D, Imean,
                    qbinsc_to_use_pre, Imean_to_use_pre, Iq, written >>
    /\ UNCHANGED regridVars

(* lines 168-172: zero padding.  The slice a:b holds b-a samples per axis; numpy
   raises ValueError at line 171 unless rho has that many, or one. *)
Pad ==
    /\ pc = "pad"
    /\ LET a == (n \div 2) - (n_orig \div 2)
           b == (n \div 2) + (n_orig \div 2)
       IN  IF rho.shape = b - a \/ rho.shape = 1
           THEN /\ rho' = PadInto(rho, n, a, b)
                /\ pc' = "final_transform"
                /\ UNCHANGED crash
           ELSE /\ Fail(171)
                /\ UNCHANGED rho
    /\ UNCHANGED << args, file, side, n, n_orig, voxel, qx_, qr, qstep, nbins,
                    qbin_labels, xcount, qbinsc, F, I3D, Imean, qbinsc_to_use_pre,
                    Imean_to_use_pre, Iq, written >>
    /\ UNCHANGED regridVars

(* lines 174-176: the transform whose shell means are written *)
FinalTransform ==
    /\ pc = "final_transform"
    /\ F' = myfftn(rho)
    /\ I3D' = abs2(F')
    /\ Imean' = mybinmean(I3D'.data, qbin_labels, xcount)
    /\ pc' = "truncate"
    /\ UNCHANGED << crash, args, file, rho, side, n, n_orig, voxel, qx_, qr, qstep, nbins,
                    qbin_labels, xcount, qbinsc, qbinsc_to_use_pre, Imean_to_use_pre,
                    Iq, written >>
    /\ UNCHANGED regridVars

(* lines 178-186: truncation below np.max(qx_); Imean[0] of an empty profile
   raises IndexError at line 186 *)
Truncate ==
    /\ pc = "truncate"
    /\ LET qmax_to_use == QmaxToUse(qx_, side)
           qbinsc_to_use == MaskSelect(qbinsc, qbinsc, qmax_to_use, 0)
           Imean_to_use == MaskSelect(Imean, qbinsc, qmax_to_use, 0)
       IN  /\ qbinsc' = qbinsc_to_use
           /\ Imean' = Imean_to_use
           /\ IF Imean_to_use = << >>
              THEN /\ Fail(186)
                   /\ UNCHANGED Iq
              ELSE /\ Iq' = ProfileRows(qbinsc_to_use, Imean_to_use)
                   /\ pc' = "save"
                   /\ UNCHANGED crash
    /\ UNCHANGED << args, file, rho, side, n, n_orig, voxel, qx_, qr, qstep, nbins,
                    qbin_labels, xcount, F, I3D, qbinsc_to_use_pre, Imean_to_use_pre,
                    written >>
    /\ UNCHANGED regridVars

(* line 188: np.savetxt *)
Save ==
    /\ pc = "save"
    /\ written' = TRUE
    /\ pc' = "done"
    /\ UNCHANGED << crash, args, file, rho, side, n, n_orig, voxel, qx_, qr, qstep, nbins,
                    qbin_labels, xcount, qbinsc, F, I3D, Imean, qbinsc_to_use_pre,
                    Imean_to_use_pre, Iq >>
    /\ UNCHANGED regridVars

(* ---------------------------- regrid.py ---------------------------------- *)
\* largest number of rows in a loaded profile
MaxRows == 5

\* a float of a loaded profile
Fin(v) == [kind |-> "finite", val |-> v]

FNaN == [kind |-> "nan", val |-> 0]

PosInf == [kind |-> "inf", val |-> 0]

NegInf == [kind |-> "-inf", val |-> 0]

\* np.isnan
isnan(x) == x.kind = "nan"

\* x != 0 on floats (nan != 0 and inf != 0 are True)
NonZero(x) == ~(x.kind = "finite" /\ x.val = 0)

\* np.isfinite
isfinite(x) == x.kind = "finite"

\* the (I, sigq) pairs a loaded row may carry
RowKinds ==
    { << Fin(1), Fin(1) >>, << FNaN, Fin(1) >>, << PosInf, Fin(1) >>,
      << Fin(1), NegInf >>, << Fin(0), Fin(1) >>, << Fin(1), Fin(0) >> }

\* saxs.loadProfile: rows in ascending q (the row number) carrying the given
\* (I, sigq) pairs
LoadedProfile(ks) ==
    [i \in DOMAIN ks |-> [q |-> Fin(i), I |-> ks[i][1], sigq |-> ks[i][2]]]

\* regrid's options: -qmax and -nq (<< >> is None), and whether -o was given
RegridArgs == [qmax : { << >>, << 2 >> }, nq : { << >> }, output : BOOLEAN]

RECURSIVE KeepRows(_, _, _)
\* Iq[mask]: the rows i..Len(rows) whose mask entry is TRUE, in order
KeepRows(rows, mask, i) ==
    IF i > Len(rows) THEN << >>
    ELSE (IF mask[i] THEN << rows[i] >> ELSE << >>) \o KeepRows(rows, mask, i + 1)

\* line 82: ~np.isnan(Iq).any(axis = 1)
NoNaN(row) == ~(isnan(row.q) \/ isnan(row.I) \/ isnan(row.sigq))

\* line 84 with | in place of &
NoZeroEither(row) == NonZero(row.I) \/ NonZero(row.sigq)

\* line 84: (Iq[:,1]!=0)&(Iq[:,2]!=0)
NoZero(row) == NonZero(row.I) /\ NonZero(row.sigq)

\* line 82
DropNaN(rows) == KeepRows(rows, [i \in 1 .. Len(rows) |-> NoNaN(rows[i])], 1)

\* lines 84-85
DropZero(rows) == KeepRows(rows, [i \in 1 .. Len(rows) |-> NoZero(rows[i])], 1)

\* lines 82-85
FilterRows(rows) == DropZero(DropNaN(rows))

RegridUnset ==
    /\ rprofile = << >> /\ rIq = << >> /\ rqc = << >> /\ rfit = << >>
    /\ rwritten = FALSE /\ rcrash = 0

InitRegrid ==
    /\ rpc = "load"
    /\ rargs \in RegridArgs
    /\ RegridUnset

RFail(line) ==
    /\ rpc' = "crashed"
    /\ rcrash' = line

(* lines 80-88: load the profile, drop the NaN rows, drop the zero rows *)
LoadProfile ==
    /\ rpc = "load"
    /\ \E k \in 0 .. MaxRows :
          \E ks \in [1 .. k -> RowKinds] :
             /\ rprofile' = LoadedProfile(ks)
             /\ rIq' = FilterRows(rprofile')
    /\ rpc' = "qgrid"
    /\ UNCHANGED << rcrash, rargs, rqc, rfit, rwritten >>
    /\ UNCHANGED rho2datVars

(* lines 91-106: qc = linspace(0, qmax, nq); np.max of an empty q raises at 101 *)
TargetGrid ==
    /\ rpc = "qgrid"
    /\ IF rargs.qmax = << >> /\ rIq = << >>
       THEN /\ RFail(101)
            /\ UNCHANGED rqc
       ELSE /\ rqc' = [qmax |-> IF rargs.qmax # << >> THEN rargs.qmax[1]
                                  ELSE rIq[Len(rIq)].q.val,
                       nq |-> IF rargs.nq # << >> THEN rargs.nq[1] ELSE 501]
            /\ rpc' = "fit"
            /\ UNCHANGED rcrash
    /\ UNCHANGED << rargs, rprofile, rIq, rfit, rwritten >>
    /\ UNCHANGED rho2datVars

(* lines 109-113: the cubic interpolators; fewer than four points raise at 109 *)
Fit ==
    /\ rpc = "fit"
    /\ IF Len(rIq) < 4
       THEN /\ RFail(109)
            /\ UNCHANGED rfit
       ELSE /\ rfit' = [i \in 1 .. Len(rIq) |->
                           [q |-> rIq[i].q, I |-> rIq[i].I, err |-> rIq[i].sigq]]
            /\ rpc' = "save"
            /\ UNCHANGED rcrash
    /\ UNCHANGED << rargs, rprofile, rIq, rqc, rwritten >>
    /\ UNCHANGED rho2datVars

(* lines 115-119: truncate and write; basename is unbound when -o was given *)
SaveRegrid ==
    /\ rpc = "save"
    /\ LET qmax == IF rIq[Len(rIq)].q.val < rqc.qmax THEN rIq[Len(rIq)].q.val ELSE rqc.qmax
       IN  rIq' = KeepRows(rIq, [i \in 1 .. Len(rIq) |-> rIq[i].q.val <= qmax], 1)
    /\ IF rargs.output
       THEN /\ RFail(119)
            /\ UNCHANGED rwritten
       ELSE /\ rwritten' = TRUE
            /\ rpc' = "done"
            /\ UNCHANGED rcrash
    /\ UNCHANGED << rargs, rprofile, rqc, rfit >>
    /\ UNCHANGED rho2datVars

(* --------------------------- specification ------------------------------- *)
Init ==
    \/ /\ InitRho2dat
       /\ rpc = "idle" /\ rargs = [qmax |-> << >>, nq |-> << >>, output |-> FALSE]
       /\ RegridUnset
    \/ /\ InitRegrid
       /\ pc = "idle"
       /\ file = [N |-> 0, side |-> 0, kind |-> "zero"]
       /\ args = [n |-> << >>, dq |-> << >>, ns |-> 1, threshold |-> << >>, plot |-> FALSE]
       /\ Rho2datUnset

Next ==
    \/ ReadMap
    \/ Geometry
    \/ BinScheme
    \/ Transform
    \/ PlotDefault
    \/ ResolutionControl
    \/ Rebuild
    \/ Pad
    \/ FinalTransform
    \/ Truncate
    \/ Save
    \/ LoadProfile
    \/ TargetGrid
    \/ Fit
    \/ SaveRegrid

Spec == Init /\ [][Next]_vars

(* ------------------------------ properties ------------------------------- *)
\* the bin scheme held in qstep, nbins, qbin_labels, xcount and qbinsc was built
\* from the current qr and side and has not yet been truncated
BinsCurrent == pc \in {"transform", "plot", "resolution", "pad", "final_transform", "truncate"}

\* lines 120-142 have run: n and side are final
Finalized ==
    \/ pc \in {"rebuild", "pad"}
    \/ /\ pc \in {"final_transform", "truncate", "save", "done"}
       /\ (args.n # << >> \/ args.dq # << >>)
    \/ pc = "crashed" /\ crash \in {155, 156, 157, 166, 171}
    \/ pc = "crashed" /\ crash = 186 /\ (args.n # << >> \/ args.dq # << >>)

\* the box side and spacing of the map as read
FileSide == R(file.side, 1)

\* the density before resolution control (lines 71-77)
OrigRho == Threshold(Stride(Trim(FileRho(file.N, file.kind)), args.ns), args.threshold)

ValidGeometry == n >= 2 /\ side.num > 0

ZeroCells == {c \in Cells(qr.shape) : qr.data[c] = 0}

CountSum == SumOf(xcount, 0, nbins)

\* C1 as claimed: in every bin scheme of a valid grid, the cells of non-zero
\* magnitude have labels in 0..K-1 and the shell counts sum to N^3 minus the
\* number of zero-magnitude cells.
C1_AsClaimed ==
    (BinsCurrent /\ ValidGeometry) =>
        /\ \A c \in Cells(n) : qr.data[c] > 0 => qbin_labels.data[c] \in 0 .. nbins - 1
        /\ CountSum = n * n * n - Cardinality(ZeroCells)

\* C1 amended: every cell has exactly one label, the label lies in 0..K, the
\* cells of largest magnitude carry label K, xcount has one entry per label
\* 0..K counting the cells of that label, and the counts sum to N^3 (the
\* zero-magnitude cell is counted, under label 0).
C1_LabelsAndCounts ==
    (BinsCurrent /\ ValidGeometry) =>
        /\ qbin_labels.shape = n /\ qr.shape = n
        /\ \A c \in Cells(n) : qbin_labels.data[c] \in 0 .. nbins
        /\ \A m \in {SetMax({qr.data[c] : c \in Cells(n)})} :
              \A c \in Cells(n) : qr.data[c] = m => qbin_labels.data[c] = nbins
        /\ DOMAIN xcount = 0 .. nbins
        /\ \A b \in 0 .. nbins :
              xcount[b] = Cardinality({c \in Cells(n) : qbin_labels.data[c] = b})
        /\ CountSum = n * n * n
        /\ \A c \in ZeroCells : qbin_labels.data[c] = 0

C1_Witness ==
    /\ pc = "pad" /\ ValidGeometry /\ n > n_orig
    /\ \E c \in Cells(n) : qr.data[c] > 0 /\ qbin_labels.data[c] = nbins

\* the target spacing is in force (no -n) and is strictly below the map's own
SmallerDq ==
    /\ args.n = << >> /\ args.dq # << >>
    /\ file.side > 0
    /\ RLess(R(args.dq[1], 1), Dq(FileSide))

\* (2*pi/dq')/voxel
DesiredN == RDiv(RDiv(R(TwoPi, 1), R(args.dq[1], 1)), voxel)

MadeEven(k) == IF k % 2 = 1 THEN k + 1 ELSE k

\* C2 as claimed: with a strictly smaller target spacing the final N is
\* (2*pi/dq')/voxel rounded to the nearest integer, plus one if that is odd.
C2_AsClaimed ==
    (Finalized /\ SmallerDq) => n = MadeEven(Nearest(DesiredN))

\* C2 amended: with a strictly smaller target spacing the final N is
\* (2*pi/dq')/voxel truncated toward zero (int()), plus one if that is odd; it
\* is always even.
C2_TruncatedThenEven ==
    (Finalized /\ SmallerDq) => (n = MadeEven(PyInt(DesiredN)) /\ n % 2 = 0)

C2_Witness ==
    /\ Finalized /\ SmallerDq
    /\ PyInt(DesiredN) # Nearest(DesiredN)
    /\ PyInt(DesiredN) % 2 = 0

\* C3: with a target sample count N' the final N is the current N when
\* N' < current N and N' otherwise, it is never below the sample count before
\* resolution control, and a target spacing given as well changes nothing:
\* the final N is determined by N' and the current N alone.
C3_BySampleCount ==
    (Finalized /\ args.n # << >>) =>
        /\ n = (IF args.n[1] < n_orig THEN n_orig ELSE args.n[1])
        /\ n >= n_orig
        /\ n_orig = OrigRho.shape

C3_Witness ==
    /\ Finalized /\ args.n # << >> /\ args.dq # << >>
    /\ args.n[1] > n_orig
    /\ n # MadeEven(PyInt(RDiv(RDiv(R(TwoPi, 1), R(args.dq[1], 1)), voxel)))

\* line 171 has run without raising
Padded ==
    /\ pc \in {"final_transform", "truncate", "save", "done"}
    /\ (args.n # << >> \/ args.dq # << >>)

\* the N_orig^3 cube sits at a..a+N_orig-1 on each axis of r, zeros elsewhere
CenteredCopy(r, a) ==
    /\ r.shape = n
    /\ \A c \in Cells(n) :
          r.data[c] = IF \A x \in 1 .. 3 : a <= c[x] /\ c[x] <= a + n_orig - 1
                      THEN OrigRho.data[<< c[1] - a, c[2] - a, c[3] - a >>]
                      ELSE 0

\* C4 as claimed: for every original size that reaches the padding step and
\* every final N >= N_orig, the padding step does not abort and the padded
\* grid is the original cube at offset a = N/2 - N_orig/2 in zeros.
C4_PaddingPlacesWholeCube ==
    /\ ~(pc = "crashed" /\ crash = 171)
    /\ Padded => CenteredCopy(rho, (n \div 2) - (n_orig \div 2))

\* C5 as claimed: with a strictly smaller target spacing the new spacing is at
\* most the original one and no frequency of the written profile exceeds the
\* largest frequency of the original truncated profile.
C5_AsClaimed ==
    (pc = "done" /\ SmallerDq /\ args.plot /\ qbinsc_to_use_pre # << >>) =>
        /\ ~RLess(Dq(FileSide), Dq(side))
        /\ \A i \in 1 .. Len(qbinsc) : qbinsc[i] <= qbinsc_to_use_pre[Len(qbinsc_to_use_pre)]

\* C5 amended: with a strictly smaller target spacing the new spacing is at
\* most the original one and every frequency of the written profile lies
\* strictly below the padded grid's own largest one-axis frequency,
\* floor((N-1)/2) * 2*pi/side.
C5_BelowOwnAxisMaximum ==
    (pc = "done" /\ SmallerDq) =>
        /\ ~RLess(Dq(FileSide), Dq(side))
        /\ \A i \in 1 .. Len(qbinsc) :
              qbinsc[i] * Dq(side).den < Dq(side).num * FixPt * ((n - 1) \div 2)

C5_Witness ==
    /\ pc = "done" /\ SmallerDq /\ n > n_orig
    /\ args.plot /\ qbinsc_to_use_pre # << >>
    /\ qbinsc[Len(qbinsc)] > qbinsc_to_use_pre[Len(qbinsc_to_use_pre)]

\* the target spacing is in force (no -n) and equals the map's own spacing
EqualDq ==
    /\ args.n = << >> /\ args.dq # << >>
    /\ file.side > 0
    /\ REq(R(args.dq[1], 1), Dq(FileSide))

\* C6 as claimed: a target spacing equal to the current one is a no-op: N and
\* side keep their values, the padding step does not abort, the density grid is
\* unchanged and the written frequencies are those of the default profile.
C6_EqualSpacingIsNoOp ==
    (Finalized /\ EqualDq) =>
        /\ n = n_orig
        /\ REq(side, FileSide)
        /\ ~(pc = "crashed" /\ crash = 171)
        /\ Padded => rho = OrigRho
        /\ (pc = "done" /\ args.plot) => qbinsc = qbinsc_to_use_pre

\* C7 as claimed: a grid with N < 2 or side <= 0 ends in a fatal error before
\* grid geometry, bin scheme or transform exist, and no profile is written.
C7_InvalidGeometryRejected ==
    (pc \notin {"idle", "read"} /\ (rho.shape < 2 \/ file.side <= 0)) =>
        /\ pc \in {"geometry", "crashed"}
        /\ qr = NoArr /\ qbin_labels = NoArr /\ F = NoArr
        /\ ~written

\* C8 as claimed: the interpolators are built only on rows whose intensity and
\* uncertainty are both finite and non-zero.
C8_AsClaimed ==
    \A i \in 1 .. Len(rfit) :
        /\ isfinite(rfit[i].I) /\ isfinite(rfit[i].err)
        /\ NonZero(rfit[i].I) /\ NonZero(rfit[i].err)

KeptByRegrid(row) ==
    /\ ~isnan(row.q) /\ ~isnan(row.I) /\ ~isnan(row.sigq)
    /\ ~(row.I = Fin(0)) /\ ~(row.sigq = Fin(0))

\* C8 amended: every source row holding a NaN, or whose intensity or
\* uncertainty is exactly zero, is removed before the interpolators are built,
\* and no other row is: rows with an infinite intensity or uncertainty stay.
C8_NaNAndZeroRowsDropped ==
    (rpc \in {"save", "done"} \/ (rpc = "crashed" /\ rcrash = 119)) =>
        /\ \A i \in 1 .. Len(rfit) :
              /\ ~isnan(rfit[i].I) /\ ~isnan(rfit[i].err)
              /\ NonZero(rfit[i].I) /\ NonZero(rfit[i].err)
        /\ \A j \in 1 .. Len(rprofile) :
              KeptByRegrid(rprofile[j]) <=>
                  \E i \in 1 .. Len(rfit) :
                      /\ rfit[i].q = rprofile[j].q
                      /\ rfit[i].I = rprofile[j].I
                      /\ rfit[i].err = rprofile[j].sigq
        /\ \A i \in 1 .. Len(rfit) : \E j \in 1 .. Len(rprofile) : rfit[i].q = rprofile[j].q
        /\ \A i \in 1 .. Len(rfit) - 1 : rfit[i].q.val < rfit[i + 1].q.val

C8_Witness ==
    /\ rpc = "save"
    /\ Len(rfit) < Len(rprofile)
    /\ \E i \in 1 .. Len(rfit) : rfit[i].I = PosInf

\* the spacing 2*pi/side exceeds twice the epsilon of line 96
SpacingAboveTwoEps == RLess(R(2 * Eps, 1), RAbs(Dq(side)))

MinPositive == SetMin({qr.data[c] : c \in Cells(qr.shape) \ ZeroCells})

\* C9 as claimed: the zero-magnitude cell has label -1 and is counted in no
\* shell, and the smallest positive magnitude falls in shell 1.
C9_AsClaimed ==
    (BinsCurrent /\ ValidGeometry) =>
        /\ \A c \in ZeroCells : qbin_labels.data[c] = -1
        /\ CountSum = n * n * n - Cardinality(ZeroCells)
        /\ \A m \in {MinPositive} :
              \A c \in Cells(n) : qr.data[c] = m => qbin_labels.data[c] = 1

\* C9 amended: the zero-magnitude cell has label 0 and is counted in shell 0;
\* when 2*pi/side exceeds twice epsilon it is the only cell of shell 0, whose
\* representative magnitude is 0 and whose mean intensity is that cell's
\* intensity, and the smallest positive magnitude falls in shell 1.
C9_OriginInShellZero ==
    (BinsCurrent /\ ValidGeometry) =>
        /\ \A c \in ZeroCells : qbin_labels.data[c] = 0
        /\ xcount[0] >= Cardinality(ZeroCells)
        /\ SpacingAboveTwoEps =>
              /\ xcount[0] = Cardinality(ZeroCells)
              /\ Cardinality(ZeroCells) = 1
              /\ qbinsc[0] = 0
              /\ pc \in {"plot", "resolution", "truncate"} => Imean[0] = I3D.data[<< 0, 0, 0 >>]
              /\ \A m \in {MinPositive} :
                    \A c \in Cells(n) : qr.data[c] = m => qbin_labels.data[c] = 1

C9_Witness ==
    /\ pc = "truncate" /\ ValidGeometry /\ SpacingAboveTwoEps
    /\ n > n_orig
    /\ \E c \in Cells(n) : qr.data[c] = 0 /\ qbin_labels.data[c] = 0
    /\ \E c \in Cells(n) : qr.data[c] = MinPositive /\ qbin_labels.data[c] = 1

\* C10 as claimed: the written intensities are aggregated from a transform in
\* which every cell of zero real part was replaced by the floor value.
C10_WrittenProfileIsFloored ==
    written =>
        /\ F = FloorZeroReal(myfftn(rho))
        /\ \A c \in Cells(F.shape) : F.data[c].re # 0
        /\ I3D = abs2(F)

\* mybinmean is about to aggregate (lines 111 and 176)
AboutToAggregate == pc \in {"transform", "final_transform"}

\* mybinmean has just aggregated (lines 111 and 176)
JustAggregated == pc \in {"plot", "truncate"}

\* the geometry and the bin scheme in use are those of the current n and side,
\* and the density has n samples per axis
BuiltFromCurrentGrid ==
    /\ rho.shape = n
    /\ qx_ = FreqAxis(n)
    /\ qr = FreqNorm2(n)
    /\ qstep = QStep(qr, side)
    /\ nbins = NBins(qr, side, qstep)
    /\ qbin_labels = BinLabels(qr, side, qstep, nbins)
    /\ xcount = BinCount(qbin_labels)

\* side is voxel size x N, with the voxel size of the map as read
SideFromVoxel ==
    /\ voxel = RDiv(FileSide, R(n_orig, 1))
    /\ side = RMul(voxel, R(n, 1))

\* C11: at every aggregation step the bin labels and shell counts in use were
\* built from the N and side of the density being transformed, side is voxel
\* size x N with the voxel size unchanged since the map was read (also after
\* resolution control changed N), and the labels, the transform cells and the
\* density cells are equally many: one shell mean per shell count.
C11_BinsMatchTransformedGrid ==
    /\ AboutToAggregate => (BuiltFromCurrentGrid /\ SideFromVoxel)
    /\ JustAggregated =>
          /\ BuiltFromCurrentGrid /\ SideFromVoxel
          /\ F.shape = n /\ I3D.shape = n
          /\ DOMAIN F.data = DOMAIN qbin_labels.data
          /\ DOMAIN I3D.data = DOMAIN qbin_labels.data
          /\ DOMAIN rho.data = DOMAIN qbin_labels.data
          /\ DOMAIN Imean = DOMAIN xcount

C11_Witness ==
    /\ pc = "truncate" /\ Padded
    /\ n > n_orig /\ side # FileSide
    /\ F.shape = n /\ qbin_labels.shape = n
    /\ DOMAIN Imean = 0 .. nbins

====
